---- MODULE Spec2Model ----
(***************************************************************************)
(* SequenceLabeler.predict / predict_proba of finetune/sequence_labeling.py *)
(* as a state machine: a batch of documents is cut into overlapping chunks, *)
(* every chunk is decoded, and the two loops stitch the per-chunk outputs   *)
(* back into one record per document.                                       *)
(*                                                                          *)
(* Python sequences are 0-based; TLA+ sequences are 1-based.  Every index   *)
(* that the source computes (chunk_idx, step_size, char locations, slice    *)
(* bounds) keeps its 0-based Python value; only the element access adds 1.  *)
(***************************************************************************)
EXTENDS Integers, Sequences, FiniteSets, TLC

----------------------------------------------------------------------------
(* Bounds of the model *)

\* documents in one batch
MaxDocs == 2
\* token positions (start marker included) of a document that is alone in
\* its batch
MaxTokens == 7
\* token positions of a whole batch of several documents
MaxBatchTokens == 5
\* padding / special positions per document besides the start marker
MaxSentinels == 1

\* positions of a chunk handed to the decode ops
MaxLogits == 2

(* Program constants *)

\* char location of padding / special tokens (predict, line 88)
PAD == -1

\* the value of an omitted max_length argument (None)
None == 0

\* self.config.max_length: every configured value admits a positive step
ConfigMaxLengths == {5, 8}
\* the max_length argument of predict / predict_proba (None when omitted)
ArgMaxLengths == {None, 3, 6, 8}
\* what a plan does once a chunk has reached the end of its document: stop
\* there, or go on while a chunk still starts inside the document
TailPolicies == {"stop", "whole"}
\* the label set of the target encoder (label_encoder.classes_)
classes_ == <<"A", "B">>
Labels == {classes_[i] : i \in DOMAIN classes_}
\* an absent transition matrix: kwargs.get("transition_matrix") is None
NoMatrix == <<>>
\* per-position logit rows, one score per class
LogitRows == {<<2, 0>>, <<0, 2>>, <<1, 1>>}
\* transition score matrices: Matrices[a][b] scores class b after class a
Matrices == {<< <<0, 0>>, <<0, 0>> >>, << <<0, 3>>, <<3, 0>> >>,
             << <<2, 0>>, <<0, 0>> >>}
\* per-token probability rows of the decoder (percent per class)
Probas == <<<<70, 30>>, <<30, 70>>>>

----------------------------------------------------------------------------
(* Helpers: Python's sequence operations *)

Min(a, b) == IF a <= b THEN a ELSE b

\* seq[lo:hi] for lo, hi >= 0: clipped to the sequence, empty when lo >= hi
PySlice(seq, lo, hi) == SubSeq(seq, lo + 1, Min(hi, Len(seq)))

\* seq[lo:] for lo >= 0
PySliceFrom(seq, lo) == SubSeq(seq, lo + 1, Len(seq))

\* dict(zip(keys, vals)): one entry per key that has a value
DictZip(keys, vals) ==
    [k \in {keys[i] : i \in 1..Min(Len(keys), Len(vals))} |->
        vals[CHOOSE i \in 1..Min(Len(keys), Len(vals)) : keys[i] = k]]

RECURSIVE SumLens(_)
SumLens(docs) ==
    IF docs = <<>> THEN 0
    ELSE Len(Head(docs).locs) + SumLens(Tail(docs))

----------------------------------------------------------------------------
(* Input documents *)

\* A tokenized document of n stream positions: position 0 holds the start
\* marker (a special token, char location PAD), the positions of `mask` are
\* padding / special, and the k-th real token ends at character 2k-1 of a
\* text of 2*(number of real tokens) characters.
MkDoc(n, mask) ==
    LET real(i) == Cardinality({j \in 2..i : j \notin mask})
    IN  [locs |-> [i \in 1..n |->
                     IF i = 1 \/ i \in mask THEN PAD ELSE 2 * real(i) - 1],
         len  |-> 2 * real(n),
         bad  |-> FALSE]

\* a malformed document: an entry of X that is not a text and cannot be
\* tokenized
BadDoc == [locs |-> <<>>, len |-> 0, bad |-> TRUE]

Malformed(Xs) == \E d \in DOMAIN Xs : Xs[d].bad

Docs ==
    {MkDoc(0, {}), BadDoc} \cup
    {MkDoc(n, mask) : n \in 1..MaxTokens,
                      mask \in {m \in SUBSET (2..MaxTokens) :
                                  Cardinality(m) <= MaxSentinels}}

Batches ==
    [1..1 -> Docs] \cup
    UNION {{b \in [1..nd -> Docs] : SumLens(b) <= MaxBatchTokens} :
             nd \in 2..MaxDocs}

\* the raw text X[d] as a sequence of characters; a character is tagged with
\* its document and its 0-based offset
Text(Xs, d) ==
    IF d + 1 \in DOMAIN Xs THEN [i \in 1..Xs[d + 1].len |-> <<d, i - 1>>] ELSE <<>>

----------------------------------------------------------------------------
(* ChunkPlanner: self._text_to_ids, whose code is outside this file *)

\* 0-based start offsets of the chunks of a document of n positions, for
\* chunk size c and stride s >= 1: no chunk for an empty document, one chunk
\* for a document that fits, otherwise a chunk every s positions up to the
\* first one that reaches the end of the document (policy "stop") or up to
\* the last one that starts inside the document (policy "whole").
ChunkStarts(n, c, s, t) ==
    IF n = 0 THEN <<>>
    ELSE IF n <= c THEN <<0>>
    ELSE LET kmin == CHOOSE k \in 0..n :
                       /\ k * s + c >= n
                       /\ \A j \in 0..(k - 1) : j * s + c < n
             kmax == (n - 1) \div s
             last == IF t = "whole" THEN kmax ELSE kmin
         IN  [k \in 1..(last + 1) |-> (k - 1) * s]

\* the chunks of document d (0-based): a chunk holds the first token id
\* (the start marker for the first chunk only) and its positions in order;
\* a position carries its 0-based index in the chunk, the token it holds
\* and the token's char location
PlanDoc(Xs, d, c, s, t) ==
    LET locs   == Xs[d + 1].locs
        starts == ChunkStarts(Len(locs), c, s, t)
    IN  [k \in 1..Len(starts) |->
           [token_id0 |-> IF starts[k] = 0 THEN "start" ELSE "token",
            seq |-> [i \in 1..Min(c, Len(locs) - starts[k]) |->
                       [idx |-> i - 1,
                        tok |-> <<d, starts[k] + i - 1>>,
                        loc |-> locs[starts[k] + i]]]]]

RECURSIVE PlanFrom(_, _, _, _, _)
PlanFrom(Xs, d, c, s, t) ==
    IF d >= Len(Xs) THEN <<>>
    ELSE PlanDoc(Xs, d, c, s, t) \o PlanFrom(Xs, d + 1, c, s, t)

\* arr_encoded = self._text_to_ids(docs): the chunks of the batch, document
\* after document, planned with chunk_size = ml - 2 and step chunk_size // 3
text_to_ids(Xs, ml, t) == PlanFrom(Xs, 0, ml - 2, (ml - 2) \div 3, t)

----------------------------------------------------------------------------
(* State *)

VARIABLES
    X,                  \* the batch: X[d + 1] is document d
    config_max_length,  \* self.config.max_length
    arg_max_length,     \* the max_length argument (None when omitted)
    path,               \* the method called: "predict" or "predict_proba"
    pc,                 \* position in the method
    arr_encoded,        \* the planned chunks
    n_decoded,          \* len(labels) / len(batch_probas)
    max_length,         \* max_length or self.config.max_length
    step_size,          \* (max_length - 2) // 3
    chunk_idx,          \* index of the chunk being stitched
    start_of_doc,       \* flags of the chunk being stitched
    end_of_doc,
    seq_in,             \* position_seq / token_seq after window selection
    it,                 \* entries of seq_in the inner loop has taken
    doc_idx,            \* predict: index into the raw texts
    start_of_token,     \* predict: char offset of the next unconsumed text
    doc_subseqs,        \* predict: span texts of the document in progress
    doc_labels,         \* predict: span labels of the document in progress
    all_subseqs,        \* predict: flushed span texts, one entry per flush
    all_labels,         \* predict: flushed span labels, one entry per flush
    seq_result,         \* predict_proba: pairs of the document in progress
    result,             \* predict_proba: flushed pair lists
    doc_offsets,        \* history: <<start, end>> slice bounds of each span
    doc_pairs,          \* history: entries consumed for the document in progress
    all_pairs,          \* history: doc_pairs at each flush
    all_offsets,        \* history: doc_offsets at each flush
    aliased,            \* the flushed entries (1-based) that are the very list
                        \* objects still bound to the document in progress
    logits,             \* decode ops: the logits of one chunk
    kwargs,             \* decode ops: the keyword arguments of the op
    called,             \* decode ops: the ops that have returned
    label_idxs,         \* decode ops: what _predict_op returned
    label_probas        \* decode ops: what _predict_proba_op returned

vars ==
    <<X, config_max_length, arg_max_length, path, pc, arr_encoded, n_decoded,
      max_length, step_size, chunk_idx, start_of_doc, end_of_doc, seq_in, it,
      doc_idx, start_of_token, doc_subseqs, doc_labels, all_subseqs,
      all_labels, seq_result, result, doc_offsets, doc_pairs, all_pairs,
      all_offsets, aliased, logits, kwargs, called, label_idxs, label_probas>>

ops == <<logits, kwargs, called, label_idxs, label_probas>>

inputs == <<X, config_max_length, arg_max_length, path, ops>>

hard == <<doc_idx, start_of_token, doc_subseqs, doc_labels, all_subseqs,
          all_labels, doc_offsets, all_offsets>>

soft == <<seq_result, result>>

\* nothing planned, nothing stitched
Blank ==
    /\ arr_encoded = <<>>
    /\ n_decoded = 0
    /\ max_length = 0
    /\ step_size = 0
    /\ chunk_idx = 0
    /\ start_of_doc = FALSE
    /\ end_of_doc = FALSE
    /\ seq_in = <<>>
    /\ it = 0
    /\ doc_idx = -1
    /\ start_of_token = 0
    /\ doc_subseqs = <<>>
    /\ doc_labels = <<>>
    /\ all_subseqs = <<>>
    /\ all_labels = <<>>
    /\ seq_result = <<>>
    /\ result = <<>>
    /\ doc_offsets = <<>>
    /\ doc_pairs = <<>>
    /\ all_pairs = <<>>
    /\ all_offsets = <<>>
    /\ aliased = {}

\* a call of predict or predict_proba on a batch
Init ==
    /\ X \in Batches
    /\ config_max_length \in ConfigMaxLengths
    /\ arg_max_length \in ArgMaxLengths
    /\ path \in {"predict", "predict_proba"}
    /\ pc = "call"
    /\ Blank
    /\ logits = <<>>
    /\ kwargs = <<>>
    /\ called = {}
    /\ label_idxs = <<>>
    /\ label_probas = <<>>

----------------------------------------------------------------------------
(* The prologue of both methods *)

\* max_length = max_length or self.config.max_length
EffectiveMaxLength(arg, cfg) == IF arg # None THEN arg ELSE cfg

\* step_size = chunk_size // 3 with chunk_size = max_length - 2
StepSize(ml) == (ml - 2) \div 3

\* predict lines 45-51, predict_proba lines 138-144: the chunks are planned
\* by self._text_to_ids(doc_subseqs), which is not handed max_length and so
\* plans with the configured one; step_size comes from the argument
Encode ==
    /\ pc = "call"
    /\ ~Malformed(X)
    /\ \E t \in TailPolicies :
          arr_encoded' = text_to_ids(X, config_max_length, t)
    /\ max_length' = EffectiveMaxLength(arg_max_length, config_max_length)
    /\ step_size' = StepSize(max_length')
    /\ pc' = "encoded"
    /\ UNCHANGED <<inputs, n_decoded, chunk_idx, start_of_doc, end_of_doc,
                   seq_in, it, hard, soft, doc_pairs, all_pairs, aliased>>

\* predict line 51, predict_proba line 139: self._text_to_ids raises on a
\* malformed document; the call is not inside a try statement, so the
\* exception leaves the method and nothing is returned for any document
EncodeRaises ==
    /\ pc = "call"
    /\ Malformed(X)
    /\ pc' = "raised"
    /\ UNCHANGED <<inputs, arr_encoded, n_decoded, max_length, step_size,
                   chunk_idx, start_of_doc, end_of_doc, seq_in, it, hard,
                   soft, doc_pairs, all_pairs, aliased>>

\* labels = self._predict(...) / batch_probas = self._predict_proba(...):
\* the decoder returns a list of per-chunk arrays; nothing in either method
\* compares its length with the number of chunks
Decode ==
    /\ pc = "encoded"
    /\ n_decoded' \in {n \in {Len(arr_encoded) - 1, Len(arr_encoded),
                              Len(arr_encoded) + 1} : n >= 0}
    /\ pc' = "loop"
    /\ UNCHANGED <<inputs, arr_encoded, max_length, step_size, chunk_idx,
                   start_of_doc, end_of_doc, seq_in, it, hard, soft,
                   doc_pairs, all_pairs, aliased>>

\* StartOfDoc flagging the first chunk of the batch only
StartOfDoc_first_of_batch(enc, k) == k = 0

\* the flags of chunk k (0-based), lines 60-64 and 148-152
StartOfDoc(enc, k) == enc[k + 1].token_id0 = "start"

\* EndOfDoc without the look at the next chunk's first token
EndOfDoc_batch_end(enc, k) == k + 1 >= Len(enc)

\* EndOfDoc flagging every chunk as the last of its document
EndOfDoc_every_chunk(enc, k) == TRUE

EndOfDoc(enc, k) ==
    \/ k + 1 >= Len(enc)
    \/ enc[k + 2].token_id0 = "start"

\* zip(labels, arr_encoded.char_locs) stops at the shorter of the two
ZipLen(n, enc) == Min(n, Len(enc))

----------------------------------------------------------------------------
(* predict: the stitching loop, lines 59-116 *)

\* predict_window without the branch for the last chunk of a document: the
\* chunk is cut like a middle chunk
predict_window_no_last(seq, first, last, s) ==
    IF first
    THEN IF ~last THEN PySlice(seq, 0, s * 2) ELSE seq
    ELSE PySlice(seq, s, s * 2)

\* window selection, lines 70-85: the part of the chunk's position_seq (and
\* label_seq) that is kept
predict_window(seq, first, last, s) ==
    IF first
    THEN IF ~last THEN PySlice(seq, 0, s * 2) ELSE seq
    ELSE IF last THEN PySliceFrom(seq, s) ELSE PySlice(seq, s, s * 2)

\* PredictChunk without lines 72, 73 and 75: the first chunk of a document
\* moves to the next raw text and keeps the lists and the cursor
PredictChunk_no_reset ==
    /\ pc = "loop"
    /\ path = "predict"
    /\ chunk_idx < ZipLen(n_decoded, arr_encoded)
    /\ start_of_doc' = StartOfDoc(arr_encoded, chunk_idx)
    /\ end_of_doc' = EndOfDoc(arr_encoded, chunk_idx)
    /\ doc_idx' = IF start_of_doc' THEN doc_idx + 1 ELSE doc_idx
    /\ doc_pairs' = IF start_of_doc' THEN <<>> ELSE doc_pairs
    /\ seq_in' = predict_window(arr_encoded[chunk_idx + 1].seq,
                                 start_of_doc', end_of_doc', step_size)
    /\ it' = 0
    /\ pc' = "merge"
    /\ UNCHANGED <<inputs, arr_encoded, n_decoded, max_length, step_size,
                   chunk_idx, doc_subseqs, doc_labels, start_of_token,
                   doc_offsets, all_subseqs, all_labels, all_offsets, soft,
                   all_pairs, aliased>>

\* lines 59-85: the next chunk of zip(labels, char_locs): its flags, the
\* reset of the accumulator at the first chunk of a document, its window
PredictChunk ==
    /\ pc = "loop"
    /\ path = "predict"
    /\ chunk_idx < ZipLen(n_decoded, arr_encoded)
    /\ start_of_doc' = StartOfDoc(arr_encoded, chunk_idx)
    /\ end_of_doc' = EndOfDoc(arr_encoded, chunk_idx)
    /\ IF start_of_doc'
       THEN /\ doc_subseqs' = <<>>
            /\ doc_labels' = <<>>
            /\ doc_idx' = doc_idx + 1
            /\ start_of_token' = 0
            /\ doc_offsets' = <<>>
            /\ doc_pairs' = <<>>
            /\ aliased' = {}
       ELSE UNCHANGED <<doc_subseqs, doc_labels, doc_idx, start_of_token,
                        doc_offsets, doc_pairs, aliased>>
    /\ seq_in' = predict_window(arr_encoded[chunk_idx + 1].seq,
                                 start_of_doc', end_of_doc', step_size)
    /\ it' = 0
    /\ pc' = "merge"
    /\ UNCHANGED <<inputs, arr_encoded, n_decoded, max_length, step_size,
                   chunk_idx, all_subseqs, all_labels, all_offsets, soft,
                   all_pairs>>

\* StartsNew comparing with the first label of the document, not the last
StartsNew_first_label(subseqs, labels, label) ==
    subseqs = <<>> \/ label # labels[1]

\* StartsNew opening a new subsequence at the first entry of every chunk
StartsNew_per_chunk(subseqs, labels, label) ==
    it = 0 \/ subseqs = <<>> \/ label # labels[Len(labels)]

\* line 94: a new subsequence starts when there is none or the label changes
StartsNew(subseqs, labels, label) ==
    subseqs = <<>> \/ label # labels[Len(labels)]

\* is_padding taking no position for padding
is_padding_never(position) == FALSE

\* line 88: the char location that indicates padding / special tokens
is_padding(position) == position = PAD

\* lines 87-102: one iteration of the merge loop.  The label is the decoded
\* label of this position of this chunk, whatever the decoder returned.
PredictToken ==
    /\ pc = "merge"
    /\ path = "predict"
    /\ it < Len(seq_in)
    /\ LET position == seq_in[it + 1].loc
           piece    == PySlice(Text(X, doc_idx), start_of_token, position)
       IN  IF is_padding(position)
           THEN UNCHANGED <<doc_subseqs, doc_labels, start_of_token,
                            doc_offsets, doc_pairs, all_subseqs, all_labels>>
           ELSE \E label \in Labels :
                  /\ IF StartsNew(doc_subseqs, doc_labels, label)
                     THEN /\ doc_subseqs' = Append(doc_subseqs, piece)
                          /\ doc_labels' = Append(doc_labels, label)
                          /\ doc_offsets' =
                               Append(doc_offsets, <<start_of_token, position>>)
                     ELSE /\ doc_subseqs' =
                               [doc_subseqs EXCEPT ![Len(doc_subseqs)] = @ \o piece]
                          /\ doc_labels' = doc_labels
                          /\ doc_offsets' =
                               [doc_offsets EXCEPT ![Len(doc_offsets)] =
                                   <<@[1], position>>]
                  /\ start_of_token' = position
                  /\ doc_pairs' = Append(doc_pairs,
                                         [tok |-> seq_in[it + 1].tok,
                                          loc |-> position,
                                          label |-> label])
                  /\ all_subseqs' = [r \in DOMAIN all_subseqs |->
                        IF r \in aliased THEN doc_subseqs' ELSE all_subseqs[r]]
                  /\ all_labels' = [r \in DOMAIN all_labels |->
                        IF r \in aliased THEN doc_labels' ELSE all_labels[r]]
    /\ it' = it + 1
    /\ UNCHANGED <<inputs, pc, arr_encoded, n_decoded, max_length, step_size,
                   chunk_idx, start_of_doc, end_of_doc, seq_in, doc_idx,
                   all_offsets, soft, all_pairs, aliased>>

\* lines 104-107: after the last chunk of a document its lists are flushed.
\* append stores the list objects themselves, not copies: the new entries
\* stay the lists of the document in progress until these are re-bound
PredictEndChunk ==
    /\ pc = "merge"
    /\ path = "predict"
    /\ it >= Len(seq_in)
    /\ IF end_of_doc
       THEN /\ all_subseqs' = Append(all_subseqs, doc_subseqs)
            /\ all_labels' = Append(all_labels, doc_labels)
            /\ all_offsets' = Append(all_offsets, doc_offsets)
            /\ all_pairs' = Append(all_pairs, doc_pairs)
            /\ aliased' = aliased \cup {Len(all_subseqs) + 1}
       ELSE UNCHANGED <<all_subseqs, all_labels, all_offsets, all_pairs,
                        aliased>>
    /\ chunk_idx' = chunk_idx + 1
    /\ pc' = "loop"
    /\ UNCHANGED <<inputs, arr_encoded, n_decoded, max_length, step_size,
                   start_of_doc, end_of_doc, seq_in, it, doc_idx,
                   start_of_token, doc_subseqs, doc_labels, doc_offsets,
                   doc_pairs, soft>>

\* lines 109-116: the flushed lists go to finetune_to_indico_sequence and
\* its annotations are returned
PredictReturn ==
    /\ pc = "loop"
    /\ path = "predict"
    /\ chunk_idx >= ZipLen(n_decoded, arr_encoded)
    /\ pc' = "done"
    /\ UNCHANGED <<inputs, arr_encoded, n_decoded, max_length, step_size,
                   chunk_idx, start_of_doc, end_of_doc, seq_in, it, hard,
                   soft, doc_pairs, all_pairs, aliased>>

----------------------------------------------------------------------------
(* predict_proba: the stitching loop, lines 146-175 *)

\* proba_window keeping one third, not two, of a document's first chunk
proba_window_one_third(seq, first, last, s) ==
    IF first
    THEN IF ~last THEN PySlice(seq, 0, s) ELSE seq
    ELSE IF last THEN PySliceFrom(seq, s) ELSE PySlice(seq, s, s * 2)

\* proba_window keeping the whole of a last chunk that is not the first
proba_window_whole_last(seq, first, last, s) ==
    IF first
    THEN IF ~last THEN PySlice(seq, 0, s * 2) ELSE seq
    ELSE IF last THEN seq ELSE PySlice(seq, s, s * 2)

\* window selection, lines 153-162
proba_window(seq, first, last, s) ==
    IF first
    THEN IF ~last THEN PySlice(seq, 0, s * 2) ELSE seq
    ELSE IF last THEN PySliceFrom(seq, s) ELSE PySlice(seq, s, s * 2)

\* lines 147-162
ProbaChunk ==
    /\ pc = "loop"
    /\ path = "predict_proba"
    /\ chunk_idx < ZipLen(n_decoded, arr_encoded)
    /\ start_of_doc' = StartOfDoc(arr_encoded, chunk_idx)
    /\ end_of_doc' = EndOfDoc(arr_encoded, chunk_idx)
    /\ seq_result' = IF start_of_doc' THEN <<>> ELSE seq_result
    /\ doc_pairs' = IF start_of_doc' THEN <<>> ELSE doc_pairs
    /\ aliased' = IF start_of_doc' THEN {} ELSE aliased
    /\ seq_in' = proba_window(arr_encoded[chunk_idx + 1].seq,
                               start_of_doc', end_of_doc', step_size)
    /\ it' = 0
    /\ pc' = "merge"
    /\ UNCHANGED <<inputs, arr_encoded, n_decoded, max_length, step_size,
                   chunk_idx, hard, result, all_pairs>>

\* batch_probas[k][i]: the decoder's row for position i of chunk k; rows of
\* neighbouring positions are equal in places and different in others
proba_row(k, i) == Probas[((k + (i \div 2)) % 2) + 1]

\* proba_append merging a token into the pair before it when the two have
\* the same distribution
proba_append_merging(res, token, proba_t) ==
    IF res # <<>> /\ res[Len(res)][2] = DictZip(classes_, proba_t)
    THEN res
    ELSE Append(res, <<token, DictZip(classes_, proba_t)>>)

\* lines 165-168: seq_result.append((token, dict(zip(classes_, proba_t))))
proba_append(res, token, proba_t) ==
    Append(res, <<token, DictZip(classes_, proba_t)>>)

\* lines 164-168: every kept token is paired with its distribution
ProbaToken ==
    /\ pc = "merge"
    /\ path = "predict_proba"
    /\ it < Len(seq_in)
    /\ LET proba_t == proba_row(chunk_idx, seq_in[it + 1].idx)
       IN  seq_result' = proba_append(seq_result, seq_in[it + 1].tok, proba_t)
    /\ doc_pairs' = Append(doc_pairs, [tok |-> seq_in[it + 1].tok,
                                        loc |-> seq_in[it + 1].loc,
                                        label |-> "none"])
    /\ result' = [r \in DOMAIN result |->
                     IF r \in aliased THEN seq_result' ELSE result[r]]
    /\ it' = it + 1
    /\ UNCHANGED <<inputs, pc, arr_encoded, n_decoded, max_length, step_size,
                   chunk_idx, start_of_doc, end_of_doc, seq_in, hard,
                   all_pairs, aliased>>

\* lines 172-173
ProbaEndChunk ==
    /\ pc = "merge"
    /\ path = "predict_proba"
    /\ it >= Len(seq_in)
    /\ IF end_of_doc
       THEN /\ result' = Append(result, seq_result)
            /\ all_pairs' = Append(all_pairs, doc_pairs)
            /\ aliased' = aliased \cup {Len(result) + 1}
       ELSE UNCHANGED <<result, all_pairs, aliased>>
    /\ chunk_idx' = chunk_idx + 1
    /\ pc' = "loop"
    /\ UNCHANGED <<inputs, arr_encoded, n_decoded, max_length, step_size,
                   start_of_doc, end_of_doc, seq_in, it, hard, seq_result,
                   doc_pairs>>

\* line 175
ProbaReturn ==
    /\ pc = "loop"
    /\ path = "predict_proba"
    /\ chunk_idx >= ZipLen(n_decoded, arr_encoded)
    /\ pc' = "done"
    /\ UNCHANGED <<inputs, arr_encoded, n_decoded, max_length, step_size,
                   chunk_idx, start_of_doc, end_of_doc, seq_in, it, hard,
                   soft, doc_pairs, all_pairs, aliased>>

----------------------------------------------------------------------------

Next ==
    \/ Encode
    \/ EncodeRaises
    \/ Decode
    \/ PredictChunk
    \/ PredictToken
    \/ PredictEndChunk
    \/ PredictReturn
    \/ ProbaChunk
    \/ ProbaToken
    \/ ProbaEndChunk
    \/ ProbaReturn

Spec == Init /\ [][Next]_vars

----------------------------------------------------------------------------
(* The decode ops, lines 201-207 *)

\* kwargs.get(key): None, here the absent matrix, for a missing key
Get(kw, key) == IF key \in DOMAIN kw THEN kw[key] ELSE NoMatrix

\* finetune.utils.sequence_decode, whose code is outside this file: the
\* decode function, logits and optional transition matrix to (label per
\* token, scores per token and label).  Modelled as Viterbi decoding: the
\* best-scoring label path, ties to the smaller labels, and the trellis of
\* best path scores.
Transition(tm, a, b) == IF tm = NoMatrix THEN 0 ELSE tm[a][b]

RECURSIVE PathScore(_, _, _, _)
PathScore(lg, tm, path_, i) ==
    IF i = 0 THEN 0
    ELSE PathScore(lg, tm, path_, i - 1) + lg[i][path_[i]]
         + (IF i = 1 THEN 0 ELSE Transition(tm, path_[i - 1], path_[i]))

LexLeq(p, q) ==
    \/ p = q
    \/ \E i \in DOMAIN p :
          /\ p[i] < q[i]
          /\ \A j \in 1..(i - 1) : p[j] = q[j]

RECURSIVE Trellis(_, _, _)
Trellis(lg, tm, i) ==
    IF i = 1 THEN lg[1]
    ELSE LET prev == Trellis(lg, tm, i - 1)
             best(b) == CHOOSE v \in {prev[a] + Transition(tm, a, b) :
                                        a \in DOMAIN prev} :
                          \A a \in DOMAIN prev : v >= prev[a] + Transition(tm, a, b)
         IN  [b \in DOMAIN lg[i] |-> lg[i][b] + best(b)]

sequence_decode(lg, tm) ==
    LET n == Len(lg)
        paths == [1..n -> DOMAIN classes_]
        score(q) == PathScore(lg, tm, q, n)
        best == CHOOSE q \in paths :
                  \A o \in paths :
                      score(q) > score(o) \/ (score(q) = score(o) /\ LexLeq(q, o))
    IN  << [i \in 1..n |-> best[i] - 1], [i \in 1..n |-> Trellis(lg, tm, i)] >>

\* _predict_proba_op without the transition matrix of its keyword arguments
predict_proba_op_no_matrix(lg, kw) == sequence_decode(lg, NoMatrix)[2]

\* _predict_op, lines 201-203
predict_op(lg, kw) == sequence_decode(lg, Get(kw, "transition_matrix"))[1]

\* _predict_proba_op, lines 205-207
predict_proba_op(lg, kw) == sequence_decode(lg, Get(kw, "transition_matrix"))[2]

LogitSeqs == UNION {[1..n -> LogitRows] : n \in 1..MaxLogits}

KwargsSets ==
    {<<>>} \cup {[transition_matrix |-> tm] : tm \in Matrices}
           \cup {[transition_matrix |-> tm, name |-> "chunk"] : tm \in Matrices}

\* the two ops are called, in either order, on the logits of one chunk with
\* the same keyword arguments
InitDecode ==
    /\ X = <<MkDoc(0, {})>>
    /\ config_max_length \in ConfigMaxLengths
    /\ arg_max_length = None
    /\ path = "predict"
    /\ pc = "ops"
    /\ Blank
    /\ logits \in LogitSeqs
    /\ kwargs \in KwargsSets
    /\ called = {}
    /\ label_idxs = <<>>
    /\ label_probas = <<>>

main == <<X, config_max_length, arg_max_length, path, pc, arr_encoded,
          n_decoded, max_length, step_size, chunk_idx, start_of_doc,
          end_of_doc, seq_in, it, hard, soft, doc_pairs, all_pairs, aliased>>

PredictOp ==
    /\ pc = "ops"
    /\ "hard" \notin called
    /\ label_idxs' = predict_op(logits, kwargs)
    /\ called' = called \cup {"hard"}
    /\ UNCHANGED <<main, logits, kwargs, label_probas>>

PredictProbaOp ==
    /\ pc = "ops"
    /\ "soft" \notin called
    /\ label_probas' = predict_proba_op(logits, kwargs)
    /\ called' = called \cup {"soft"}
    /\ UNCHANGED <<main, logits, kwargs, label_idxs>>

NextDecode == PredictOp \/ PredictProbaOp

SpecDecode == InitDecode /\ [][NextDecode]_vars

----------------------------------------------------------------------------
(* Vocabulary of the properties *)

\* the chunks that open a document, in order
StartChunks(enc) == SelectSeq(enc, LAMBDA ch : ch.token_id0 = "start")

\* the document (0-based) whose chunks produced the r-th flushed record
OwnerDoc(r) == StartChunks(arr_encoded)[r].seq[1].tok[1]

\* the positions of document d that carry text, in order
RealTokens(Xs, d) ==
    SelectSeq([j \in 1..Len(Xs[d + 1].locs) |-> <<d, j - 1>>],
              LAMBDA t : Xs[d + 1].locs[t[2] + 1] # PAD)

\* the step the chunks were planned with is the step of window selection
StepsAgree == StepSize(config_max_length) = step_size

\* the decoder returned one array per chunk
DecoderAligned == n_decoded = Len(arr_encoded)

\* the char location of a token
LocOf(tok) == X[tok[1] + 1].locs[tok[2] + 1]

\* the chunks (0-based) cut from document d
ChunksOf(d) ==
    {k \in 0..(Len(arr_encoded) - 1) : arr_encoded[k + 1].seq[1].tok[1] = d}

RECURSIVE Concat(_)
Concat(seqs) == IF seqs = <<>> THEN <<>> ELSE Head(seqs) \o Concat(Tail(seqs))

\* the char location of the last consumed token, 0 when there is none
LastLoc(pairs) == IF pairs = <<>> THEN 0 ELSE pairs[Len(pairs)].loc

Increasing(pairs) ==
    \A i \in 1..(Len(pairs) - 1) : pairs[i].loc < pairs[i + 1].loc

\* the maximal runs of equal consecutive labels of a sequence of consumed
\* (label, char location) pairs: run r has the label of its tokens, starts
\* at the char location of the token before it (0 for the first run) and
\* ends at the char location of its last token
RunsOf(pairs) ==
    LET n == Len(pairs)
        IsStart(i) == i = 1 \/ pairs[i].label # pairs[i - 1].label
        starts == {i \in 1..n : IsStart(i)}
        nth(r) == CHOOSE i \in starts : Cardinality({j \in starts : j <= i}) = r
        last(i) == CHOOSE j \in i..n :
                     /\ j = n \/ IsStart(j + 1)
                     /\ \A k \in (i + 1)..j : ~IsStart(k)
    IN  [r \in 1..Cardinality(starts) |->
           [label |-> pairs[nth(r)].label,
            start |-> IF nth(r) = 1 THEN 0 ELSE pairs[nth(r) - 1].loc,
            end   |-> pairs[last(nth(r))].loc]]

\* the span lists of one document are the runs of the pairs consumed for
\* it, cut from raw text number d
SpansMatch(subseqs, labels, offsets, pairs, d) ==
    LET runs == RunsOf(pairs)
    IN  /\ Len(subseqs) = Len(runs)
        /\ Len(labels) = Len(runs)
        /\ Len(offsets) = Len(runs)
        /\ \A k \in 1..Len(runs) :
              /\ labels[k] = runs[k].label
              /\ offsets[k] = <<runs[k].start, runs[k].end>>
              /\ subseqs[k] = PySlice(Text(X, d), runs[k].start, runs[k].end)

----------------------------------------------------------------------------
(* C1. Coverage: when the chunks were planned with the step that window     *)
(* selection uses, and that step is at least 1, the tokens the merge loop   *)
(* of predict has consumed for a flushed document are exactly the           *)
(* non-sentinel positions of that document, each once and in order.         *)
Coverage ==
    (path = "predict" /\ step_size >= 1 /\ StepsAgree) =>
        \A r \in 1..Len(all_pairs) :
            [i \in 1..Len(all_pairs[r]) |-> all_pairs[r][i].tok]
                = RealTokens(X, OwnerDoc(r))

\* a flushed document of step 2 with a first, a middle and a last chunk,
\* the last one holding no more than step_size positions
CoverageWitness ==
    /\ path = "predict"
    /\ pc = "done"
    /\ StepsAgree
    /\ step_size = 2
    /\ Len(all_pairs) = 1
    /\ Len(all_pairs[1]) >= 5
    /\ \E k \in 1..(Len(arr_encoded) - 1) :
          /\ ~StartOfDoc(arr_encoded, k)
          /\ EndOfDoc(arr_encoded, k)
          /\ Len(arr_encoded[k + 1].seq) <= step_size
          /\ ~StartOfDoc(arr_encoded, k - 1)

(* C2. Window selection: of a chunk of n positions the positions kept are   *)
(* those of [0, n) when the chunk is first and last, of [0, 2s) when first  *)
(* and not last, of [s, n) when last and not first, of [s, 2s) when         *)
(* neither, in this order, in predict and in predict_proba.                 *)
WindowSelection ==
    pc = "merge" =>
        LET chunk == arr_encoded[chunk_idx + 1].seq
            n  == Len(chunk)
            lo == IF start_of_doc THEN 0 ELSE step_size
            hi == IF end_of_doc THEN n ELSE 2 * step_size
            kept == {j \in 0..(n - 1) : lo <= j /\ j < hi}
        IN  /\ Len(seq_in) = Cardinality(kept)
            /\ {seq_in[i].idx : i \in 1..Len(seq_in)} = kept
            /\ \A i \in 1..Len(seq_in) : seq_in[i] = chunk[lo + i]

\* a middle chunk of predict_proba whose middle third, of step 2, is kept
WindowSelectionWitness ==
    /\ pc = "merge"
    /\ path = "predict_proba"
    /\ ~start_of_doc
    /\ ~end_of_doc
    /\ step_size = 2
    /\ Len(seq_in) = 2
    /\ Len(arr_encoded[chunk_idx + 1].seq) > 4

(* C3. Merge correctness: the spans of a document, in progress or flushed,  *)
(* are the maximal runs of equal consecutive labels of the (label, char     *)
(* location) pairs consumed for it, whenever their char locations increase: *)
(* a span has the label of its run, starts at the char location of the      *)
(* token before the run (0 for the first run), ends at the char location of *)
(* the last token of the run, and its text is that slice of the raw text.   *)
MergeCorrect ==
    path = "predict" =>
        /\ Increasing(doc_pairs) =>
              SpansMatch(doc_subseqs, doc_labels, doc_offsets, doc_pairs, doc_idx)
        /\ \A r \in 1..Len(all_labels) :
              Increasing(all_pairs[r]) =>
                SpansMatch(all_subseqs[r], all_labels[r], all_offsets[r],
                           all_pairs[r], r - 1)

\* labels A A B B B A of six tokens give three spans, cut where the label
\* changes
MergeCorrectWitness ==
    /\ path = "predict"
    /\ pc = "done"
    /\ Len(all_pairs) = 1
    /\ [i \in 1..Len(all_pairs[1]) |-> all_pairs[1][i].label]
          = <<"A", "A", "B", "B", "B", "A">>
    /\ all_labels = << <<"A", "B", "A">> >>
    /\ all_offsets = << << <<0, 3>>, <<3, 9>>, <<9, 11>> >> >>

(* C4. Sentinel skip: a position whose char location is the sentinel is    *)
(* never part of an emitted span of predict (no span is cut at -1) and      *)
(* never one of the (token, distribution) pairs of predict_proba.           *)
SentinelNeverEmitted ==
    /\ \A r \in 1..Len(all_offsets) : \A k \in 1..Len(all_offsets[r]) :
          all_offsets[r][k][1] # PAD /\ all_offsets[r][k][2] # PAD
    /\ \A r \in 1..Len(result) : \A i \in 1..Len(result[r]) :
          LocOf(result[r][i][1]) # PAD

(* C5. One record per document: when the call returns, and the decoder has  *)
(* returned one array per chunk, the flushed list has one entry per input   *)
(* document, the i-th entry produced by the chunks of the i-th document.    *)
OneRecordPerDocument ==
    (pc = "done" /\ DecoderAligned) =>
        /\ Len(all_pairs) = Len(X)
        /\ path = "predict" =>
              Len(all_subseqs) = Len(X) /\ Len(all_labels) = Len(X)
        /\ path = "predict_proba" => Len(result) = Len(X)
        /\ \A r \in 1..Len(all_pairs) : OwnerDoc(r) = r - 1

(* C6. Round trip: the span texts predict has flushed for a document tile   *)
(* a prefix of that document's text: the first span starts at character 0,  *)
(* every later span starts where its predecessor ends, and their            *)
(* concatenation is the document's text from character 0 to the char        *)
(* location of the last consumed token.                                     *)
RoundTrip ==
    (path = "predict" /\ DecoderAligned /\ StepsAgree /\ step_size >= 1) =>
        \A r \in 1..Len(all_subseqs) :
            /\ \A k \in 1..Len(all_offsets[r]) :
                  all_offsets[r][k][1] =
                      IF k = 1 THEN 0 ELSE all_offsets[r][k - 1][2]
            /\ Concat(all_subseqs[r])
                  = PySlice(Text(X, OwnerDoc(r)), 0, LastLoc(all_pairs[r]))

\* the chunks of the batch have been planned
Planned == pc \notin {"call", "raised"}

\* document d is cut into exactly one chunk, which the loop flags first and
\* last and keeps whole
OneWholeChunk(d) ==
    /\ Cardinality(ChunksOf(d)) = 1
    /\ \A k \in ChunksOf(d) :
          (pc = "merge" /\ chunk_idx = k) =>
              /\ start_of_doc
              /\ end_of_doc
              /\ seq_in = arr_encoded[k + 1].seq

AlignmentErrorRaised == pc = "done" => DecoderAligned

(* C9. Configuration error: no chunk is stitched with step_size = 0.        *)
ZeroStepRejected == pc = "merge" => step_size # 0

----------------------------------------------------------------------------
(* Vocabulary of the stitching properties: what the loop has consumed *)

\* the positions of chunk k (0-based) inside its authoritative range, each
\* with the chunk it is read from
Kept(k) ==
    LET chunk == arr_encoded[k + 1].seq
        lo == IF StartOfDoc(arr_encoded, k) THEN 0 ELSE step_size
        hi == IF EndOfDoc(arr_encoded, k) THEN Len(chunk) ELSE 2 * step_size
        in == SelectSeq(chunk, LAMBDA p : lo <= p.idx /\ p.idx < hi)
    IN  [i \in 1..Len(in) |-> [chunk |-> k, pos |-> in[i]]]

\* the kept positions of the chunks of one document up to chunk k
RECURSIVE DocEntries(_)
DocEntries(k) ==
    IF StartOfDoc(arr_encoded, k) THEN Kept(k)
    ELSE DocEntries(k - 1) \o Kept(k)

\* the positions the inner loop has taken for the document in progress
Consumed ==
    IF pc = "merge"
    THEN (IF start_of_doc THEN <<>> ELSE DocEntries(chunk_idx - 1))
            \o SubSeq(Kept(chunk_idx), 1, it)
    ELSE IF pc \in {"loop", "done"} /\ chunk_idx > 0
         THEN DocEntries(chunk_idx - 1)
         ELSE <<>>

\* the chunks (0-based) before chunk k that end a document
EndChunksBefore(k) == {j \in 0..(k - 1) : EndOfDoc(arr_encoded, j)}

\* the r-th chunk (0-based index) that ends a document
NthEndChunk(r) ==
    CHOOSE j \in 0..(Len(arr_encoded) - 1) :
        EndOfDoc(arr_encoded, j) /\ Cardinality(EndChunksBefore(j)) = r - 1

\* the pair predict_proba makes of a consumed position
PairOf(e) ==
    <<e.pos.tok, DictZip(classes_, proba_row(e.chunk, e.pos.idx))>>

FailureIsolation ==
    pc = "raised" =>
        Len(all_pairs) >= Cardinality({d \in DOMAIN X : ~X[d].bad})

\* no two neighbouring entries of a label list are equal
NoEqualNeighbours(labels) ==
    \A i \in 1..(Len(labels) - 1) : labels[i] # labels[i + 1]

(* C13. Maximal merging across chunks: in every state of predict no two     *)
(* consecutive entries of the label list of the document in progress, or of *)
(* a flushed label list, are equal, and there is one span text per label;   *)
(* a run of equal labels that goes on from one chunk into the next chunk of *)
(* the same document is one span.                                           *)
MaximalMerging ==
    path = "predict" =>
        /\ NoEqualNeighbours(doc_labels)
        /\ Len(doc_subseqs) = Len(doc_labels)
        /\ \A r \in 1..Len(all_labels) :
              /\ NoEqualNeighbours(all_labels[r])
              /\ Len(all_subseqs[r]) = Len(all_labels[r])

\* the first token consumed from a chunk that is not the first of its
\* document has the label of the token consumed before it, from the chunk
\* before, and the document still has one span
MaximalMergingWitness ==
    /\ path = "predict"
    /\ pc = "merge"
    /\ ~start_of_doc
    /\ StepsAgree
    /\ it >= 1
    /\ seq_in[it].loc # PAD
    /\ \A j \in 1..(it - 1) : seq_in[j].loc = PAD
    /\ Len(doc_pairs) >= 2
    /\ doc_pairs[Len(doc_pairs)].tok = seq_in[it].tok
    /\ doc_pairs[Len(doc_pairs)].label = doc_pairs[Len(doc_pairs) - 1].label
    /\ Len(doc_labels) = 1
    /\ doc_offsets = << <<0, seq_in[it].loc>> >>

\* the chunk being stitched opens a document: its first position is the
\* document's first token
AtFirstChunk ==
    pc = "merge" /\ arr_encoded[chunk_idx + 1].seq[1].tok[2] = 0

\* the characters of a span text come from one raw text
OneDocument(text) ==
    \A i \in 1..Len(text) : \A j \in 1..Len(text) : text[i][1] = text[j][1]

(* C14. Reset at document boundary: when the first chunk of a document      *)
(* starts being stitched, the span list and the label list of predict are   *)
(* empty and its cursor is 0, and the pair list of predict_proba is empty,  *)
(* whatever the document before left; the first token consumed for a        *)
(* document opens a span that starts at character 0; and no span text holds *)
(* characters of two raw texts.                                             *)
ResetAtBoundary ==
    /\ (AtFirstChunk /\ it = 0) =>
          /\ path = "predict" =>
                doc_subseqs = <<>> /\ doc_labels = <<>> /\ start_of_token = 0
          /\ path = "predict_proba" => seq_result = <<>>
    /\ (path = "predict" /\ Len(doc_pairs) = 1) =>
          /\ Len(doc_labels) = 1
          /\ Len(doc_subseqs) = 1
          /\ doc_labels[1] = doc_pairs[1].label
          /\ doc_offsets[1][1] = 0
    /\ \A k \in 1..Len(doc_subseqs) : OneDocument(doc_subseqs[k])
    /\ \A r \in 1..Len(all_subseqs) :
          \A k \in 1..Len(all_subseqs[r]) : OneDocument(all_subseqs[r][k])

\* the first token of the second document has been consumed; its label is
\* the last label of the first document, and it has opened a span of its
\* own at character 0
ResetAtBoundaryWitness ==
    /\ path = "predict"
    /\ pc = "merge"
    /\ AtFirstChunk
    /\ chunk_idx > 0
    /\ Len(all_labels) = 1
    /\ all_labels[1] # <<>>
    /\ all_offsets[1][Len(all_offsets[1])][2] > 1
    /\ Len(doc_pairs) = 1
    /\ doc_labels = <<all_labels[1][Len(all_labels[1])]>>
    /\ doc_offsets = << <<0, 1>> >>
    /\ doc_subseqs[1] # <<>>

\* the document (0-based) chunk k was cut from
DocOf(k) == arr_encoded[k + 1].seq[1].tok[1]

\* the tokens a path has consumed for a document when it has stitched the
\* chunks of that document up to chunk k: predict passes over sentinel
\* positions, predict_proba takes every position
StitchedTokens(k) ==
    LET done == DocEntries(k)
        used == IF path = "predict"
                THEN SelectSeq(done, LAMBDA e : e.pos.loc # PAD)
                ELSE done
    IN  [i \in 1..Len(used) |-> used[i].pos.tok]

\* the flushed records are there, one per processed chunk flagged last,
\* each made of what was consumed up to that chunk, no document twice,
\* and every document with a chunk once all chunks are processed
FlushedOnce ==
    /\ Len(all_pairs) = Cardinality(EndChunksBefore(chunk_idx))
    /\ path = "predict" =>
          Len(all_subseqs) = Len(all_pairs) /\ Len(all_labels) = Len(all_pairs)
    /\ path = "predict_proba" => Len(result) = Len(all_pairs)
    /\ \A r \in 1..Len(all_pairs) :
          /\ [i \in 1..Len(all_pairs[r]) |-> all_pairs[r][i].tok]
                = StitchedTokens(NthEndChunk(r))
          /\ \A q \in 1..(r - 1) :
                DocOf(NthEndChunk(q)) < DocOf(NthEndChunk(r))
    /\ (pc \in {"loop", "done"} /\ chunk_idx = Len(arr_encoded)) =>
          {DocOf(NthEndChunk(r)) : r \in 1..Len(all_pairs)}
              = {d \in 0..(Len(X) - 1) : ChunksOf(d) # {}}

\* a step leaves every flushed record as it is
FlushedFrame ==
    /\ Len(all_subseqs') >= Len(all_subseqs)
    /\ Len(all_labels') >= Len(all_labels)
    /\ Len(result') >= Len(result)
    /\ \A r \in 1..Len(all_subseqs) : all_subseqs'[r] = all_subseqs[r]
    /\ \A r \in 1..Len(all_labels) : all_labels'[r] = all_labels[r]
    /\ \A r \in 1..Len(result) : result'[r] = result[r]

(* C15. Flush exactly once: a record is emitted at the step that ends the   *)
(* stitching of a chunk flagged last, holding what was consumed for its     *)
(* document up to the end of that chunk's authoritative range; no document  *)
(* is emitted twice; once every chunk is processed every document with a    *)
(* chunk has its record; and no step modifies a record already emitted.     *)
FlushExactlyOnce == [](FlushedOnce) /\ [][FlushedFrame]_vars

\* both documents of a batch are flushed, the first of them stitched from
\* several chunks, and the flushed lists are still bound to the last
\* document
FlushExactlyOnceWitness ==
    /\ pc = "done"
    /\ path = "predict"
    /\ Len(all_subseqs) = 2
    /\ Cardinality(ChunksOf(0)) >= 2
    /\ Len(all_labels[1]) >= 2
    /\ aliased = {2}

(* C16. Boundary flags: in the chunk sequence of a batch the chunks of a    *)
(* document are consecutive; of the chunks of a document exactly the        *)
(* earliest is flagged first and exactly the latest is flagged last; a      *)
(* chunk is flagged last if and only if it is the final chunk of the batch  *)
(* or the chunk after it is flagged first; and the flags the loops hold     *)
(* for the chunk being stitched are these.                                  *)
BoundaryFlags ==
    Planned =>
        /\ \A d \in 0..(Len(X) - 1) :
              LET ks == ChunksOf(d)
              IN  ks # {} =>
                    \E lo \in ks : \E hi \in ks :
                        /\ ks = lo..hi
                        /\ {k \in ks : StartOfDoc(arr_encoded, k)} = {lo}
                        /\ {k \in ks : EndOfDoc(arr_encoded, k)} = {hi}
        /\ \A k \in 0..(Len(arr_encoded) - 1) :
              /\ EndOfDoc(arr_encoded, k) <=>
                    (k = Len(arr_encoded) - 1 \/ StartOfDoc(arr_encoded, k + 1))
              /\ \A j \in 0..(k - 1) : DocOf(j) <= DocOf(k)
        /\ pc = "merge" =>
              /\ start_of_doc <=>
                    (chunk_idx = 0 \/ DocOf(chunk_idx - 1) # DocOf(chunk_idx))
              /\ end_of_doc <=>
                    (chunk_idx = Len(arr_encoded) - 1
                        \/ DocOf(chunk_idx + 1) # DocOf(chunk_idx))

\* the second of the two chunks of a document that another document
\* follows is being stitched: it is flagged last and not first
BoundaryFlagsWitness ==
    /\ pc = "merge"
    /\ Len(arr_encoded) = 3
    /\ ChunksOf(0) = {0, 1}
    /\ ChunksOf(1) = {2}
    /\ chunk_idx = 1
    /\ end_of_doc
    /\ ~start_of_doc

\* the merge loop of predict is about to take a sentinel position
AtSentinel ==
    /\ path = "predict"
    /\ pc = "merge"
    /\ it < Len(seq_in)
    /\ seq_in[it + 1].loc = PAD

(* C17. Sentinel frame: the step of predict that takes a position whose     *)
(* char location is the sentinel leaves the span list, the label list, the  *)
(* text of the open span and the cursor as they are, in the document in     *)
(* progress and in the flushed lists, and moves to the next position.       *)
SentinelFrame ==
    [][AtSentinel =>
          /\ UNCHANGED <<doc_subseqs, doc_labels, start_of_token, doc_offsets,
                         all_subseqs, all_labels>>
          /\ it' = it + 1
          /\ pc' = "merge"]_vars

\* two tokens of one label with only a sentinel position between them are
\* one span, which runs from character 0 to the end of the second token
SentinelFrameWitness ==
    /\ path = "predict"
    /\ pc = "merge"
    /\ it >= 3
    /\ seq_in[it].loc # PAD
    /\ seq_in[it - 1].loc = PAD
    /\ seq_in[it - 2].loc # PAD
    /\ Len(doc_pairs) >= 2
    /\ doc_pairs[Len(doc_pairs)].tok = seq_in[it].tok
    /\ doc_pairs[Len(doc_pairs) - 1].tok = seq_in[it - 2].tok
    /\ doc_pairs[Len(doc_pairs)].label = doc_pairs[Len(doc_pairs) - 1].label
    /\ Len(doc_labels) = 1
    /\ doc_offsets = << <<0, seq_in[it].loc>> >>
    /\ doc_subseqs = <<PySlice(Text(X, doc_idx), 0, seq_in[it].loc)>>

(* C18. Document text alignment: while predict stitches a chunk, the        *)
(* document counter that indexes the raw texts is the index of the document *)
(* the chunk was cut from, and every character of the span texts of the     *)
(* document in progress is a character of that document's raw text.         *)
DocTextAligned ==
    (path = "predict" /\ pc = "merge") =>
        /\ doc_idx = DocOf(chunk_idx)
        /\ \A k \in 1..Len(doc_subseqs) :
              \A i \in 1..Len(doc_subseqs[k]) :
                  doc_subseqs[k][i][1] = DocOf(chunk_idx)

(* C19. Step agreement: whenever a chunk is stitched, the step_size of      *)
(* window selection is the stride the chunks were planned with.             *)
StepAgreement == pc = "merge" => StepsAgree

\* the tokens with a char location among consumed entries, in order
TextTokens(pairs) ==
    LET real == SelectSeq(pairs, LAMBDA e : e.loc # PAD)
    IN  [i \in 1..Len(real) |-> real[i].tok]

\* the tokens with a char location among kept positions, in order
TextTokensOf(entries) ==
    LET real == SelectSeq(entries, LAMBDA e : e.pos.loc # PAD)
    IN  [i \in 1..Len(real) |-> real[i].pos.tok]

(* C20. Hard/soft window equivalence: for every chunk that predict or       *)
(* predict_proba stitches, the flags it holds are those of the chunk, the   *)
(* windows the two methods select of the chunk for these flags and this     *)
(* step are the same and are the window the method holds; records are       *)
(* flushed at the chunks flagged last; and the tokens with a char location  *)
(* consumed for a document, in progress or flushed, are those of the kept   *)
(* positions of its chunks, which depends on the chunks and the step only,  *)
(* not on the method.                                                       *)
HardSoftEquivalent ==
    /\ pc = "merge" =>
          LET chunk == arr_encoded[chunk_idx + 1].seq
              first == StartOfDoc(arr_encoded, chunk_idx)
              last  == EndOfDoc(arr_encoded, chunk_idx)
          IN  /\ start_of_doc = first
              /\ end_of_doc = last
              /\ predict_window(chunk, first, last, step_size)
                    = proba_window(chunk, first, last, step_size)
              /\ seq_in = predict_window(chunk, first, last, step_size)
              /\ seq_in = proba_window(chunk, first, last, step_size)
    /\ Len(all_pairs) = Cardinality(EndChunksBefore(chunk_idx))
    /\ TextTokens(doc_pairs) = TextTokensOf(Consumed)
    /\ \A r \in 1..Len(all_pairs) :
          TextTokens(all_pairs[r]) = TextTokensOf(DocEntries(NthEndChunk(r)))

\* predict_proba has taken a last chunk, not the first of its document,
\* whose window holds a sentinel position and a token with text
HardSoftEquivalentWitness ==
    /\ path = "predict_proba"
    /\ pc = "merge"
    /\ ~start_of_doc
    /\ end_of_doc
    /\ it = Len(seq_in)
    /\ \E i \in 1..Len(seq_in) : seq_in[i].loc = PAD
    /\ \E i \in 1..Len(seq_in) : seq_in[i].loc # PAD
    /\ Len(doc_pairs) > Len(TextTokens(doc_pairs)) + 1

============================================================================
